---- MODULE Spec2Model ----
(***************************************************************************)
(* A model of the path tracer of src/src/main.rs: scene construction       *)
(* (HittableList::add), Camera::new, the render loop of                    *)
(* Camera::render_to_disk, the recursive integrator Ray::color, the        *)
(* closest-hit fold of HittableList::hit, Sphere::hit and                  *)
(* Material::scatter.                                                      *)
(*                                                                         *)
(* Numbers.  An f64 is modelled as a fixed-point number: the integer n     *)
(* stands for n / Scale.  Every product, quotient and square root is       *)
(* rounded to the nearest grid value, ties to even, as f64 rounds to the   *)
(* nearest representable value; the rounding is monotone and symmetric     *)
(* under negation, as f64's is.  Colours use the finer grid ColorScale,    *)
(* so that the clamp bound 0.999 is a grid value.  f64::INFINITY and NaN   *)
(* are values of their own (INFINITY, NaN).                                *)
(***************************************************************************)
EXTENDS Integers, Sequences, FiniteSets, TLC

VARIABLES
    world,      \* HittableList.objects, in insertion order
    cam,        \* None, or Some(the Camera that Camera::new returned)
    pc,         \* position of main / render_to_disk
    py, px,     \* the (y, x) pair the cartesian product is at
    sample,     \* samples of the current pixel already summed
    sum,        \* the partial sum of the current pixel's sample colours
    samples,    \* the calls of Ray::color summed into sum, in order: the
                \* ray and depth each started with and the colour it returned
    pixels,     \* the pixels produced so far, in emission order: each the
                \* (y, x) it was computed for, its text and its samples
    output,     \* None, or Some(what fs::write wrote to output.ppm)
    cpc,        \* position of the innermost Ray::color call
    ray,        \* self of the innermost Ray::color / the ray of a hit query
    depth,      \* depth of the innermost Ray::color call
    frames,     \* the suspended Ray::color calls, outermost first: each its
                \* ray, its depth and the attenuation it will multiply by
    ret,        \* the value the innermost finished Ray::color call returned
    hpc,        \* position of HittableList::hit
    interval,   \* the interval HittableList::hit was called with
    idx,        \* the member the fold of HittableList::hit is at
    acc,        \* the fold's accumulator (closest, hit_record)
    call,       \* None, or Some(the last Sphere::hit call: arguments and result)
    scat,       \* None, or Some(the last Material::scatter call: arguments and result)
    depth0,     \* depth of the outermost Ray::color call
    ray0,       \* ray of the outermost Ray::color call
    nQueries,   \* scene queries made since the outermost Ray::color call began
    nScatters   \* scatter calls made since the outermost Ray::color call began

vars == <<world, cam, pc, py, px, sample, sum, samples, pixels, output, cpc, ray, depth,
          frames, ret, hpc, interval, idx, acc, call, scat, depth0, ray0, nQueries,
          nScatters>>

(***************************************************************************)
(* Bounds of the model.                                                    *)
(***************************************************************************)
\* grid units per 1.0 of a geometric f64
Scale == 64
\* most members a scene is given
MaxObjects == 2
\* widest image a camera is built for
MaxWidth == 2
\* samples_per_pixel as modelled (the program sets 100)
SamplesPerPixel == 2
\* max_depth as modelled (the program sets 50)
MaxDepth == 2

\* grid units per 1.0 of a colour channel
ColorScale == 1000

(***************************************************************************)
(* Option<T>                                                               *)
(***************************************************************************)
None == <<>>
Some(v) == <<v>>
IsSome(o) == o # None
Unwrap(o) == o[1]

(***************************************************************************)
(* f64 arithmetic on the grid                                              *)
(***************************************************************************)
Abs(n) == IF n < 0 THEN -n ELSE n
Sign(n) == IF n < 0 THEN -1 ELSE 1

\* Value(S) is the one element of the singleton S.  An operator that uses an
\* argument several times binds it through a singleton, so that the
\* argument is evaluated once.
Value(S) == CHOOSE v \in S : TRUE

RoundOf(n, d) ==
    LET q == Abs(n) \div Abs(d)
        r == Abs(n) % Abs(d)
        up == 2 * r > Abs(d) \/ (2 * r = Abs(d) /\ q % 2 = 1)
    IN  Sign(n) * Sign(d) * (IF up THEN q + 1 ELSE q)
\* n / d rounded to the nearest integer, ties to even; d # 0
Round(n, d) == Value({ RoundOf(x, y) : x \in {n}, y \in {d} })

RECURSIVE SqrtSearch(_, _, _)
\* the largest r in lo..hi with r * r <= n
SqrtSearch(n, lo, hi) ==
    IF lo = hi THEN lo
    ELSE Value({ IF mid * mid <= n THEN SqrtSearch(n, mid, hi)
                 ELSE SqrtSearch(n, lo, mid - 1) :
                 mid \in {(lo + hi + 1) \div 2} })

ISqrtOf(n) ==
    Value({ IF n - r * r > r THEN r + 1 ELSE r :
            r \in {SqrtSearch(n, 0, IF n < 46340 THEN n ELSE 46340)} })
\* the integer nearest to the square root of n >= 0
ISqrt(n) == Value({ ISqrtOf(x) : x \in {n} })

\* the decimal literal n/d of the source on the grid of s units
LitOn(s, n, d) == Round(n * s, d)
Lit(n, d) == LitOn(Scale, n, d)
\* the least grid value >= n/d and the greatest grid value <= n/d, for a
\* literal that only bounds a comparison: x >= n/d iff x >= LitUp(n, d) and
\* x <= n/d iff x <= LitDown(n, d) for every grid value x
LitUp(n, d) == -((-(n * Scale)) \div d)
LitDown(n, d) == (n * Scale) \div d

Mul(a, b) == Round(a * b, Scale)
\* b # 0; the callers handle division by zero
Div(a, b) == Round(a * Scale, b)
\* f64::sqrt of a >= 0
Sqrt(a) == ISqrt(a * Scale)
Min(a, b) == IF a < b THEN a ELSE b
Max(a, b) == IF a > b THEN a ELSE b

\* An f64 that need not be finite is Fin(t) or the one non-finite value its
\* place allows: INFINITY for the end of a range, NaN for a quotient by zero
\* and for the normalized zero vector.
NonFinite == <<>>
INFINITY == NonFinite
NaN == NonFinite
Fin(t) == <<t>>
IsFinite(f) == f # NonFinite

(***************************************************************************)
(* DVec3                                                                   *)
(***************************************************************************)
V(x, y, z) == <<x * Scale, y * Scale, z * Scale>>
ZERO == V(0, 0, 0)
NEG_Z == V(0, 0, -1)
Y == V(0, 1, 0)
VAdd(a, b) == Value({ <<x[1] + y[1], x[2] + y[2], x[3] + y[3]>> : x \in {a}, y \in {b} })
VSub(a, b) == Value({ <<x[1] - y[1], x[2] - y[2], x[3] - y[3]>> : x \in {a}, y \in {b} })
VNeg(a) == Value({ <<-x[1], -x[2], -x[3]>> : x \in {a} })
\* f64 * DVec3
VScale(s, a) ==
    Value({ <<Mul(t, x[1]), Mul(t, x[2]), Mul(t, x[3])>> : t \in {s}, x \in {a} })
\* DVec3 / f64, s # 0
VDiv(a, s) ==
    Value({ <<Div(x[1], t), Div(x[2], t), Div(x[3], t)>> : x \in {a}, t \in {s} })
\* an integer converted to f64, times a DVec3
VTimes(n, a) == Value({ <<n * x[1], n * x[2], n * x[3]>> : x \in {a} })
dot(a, b) ==
    Value({ Mul(x[1], y[1]) + Mul(x[2], y[2]) + Mul(x[3], y[3]) : x \in {a}, y \in {b} })
cross(a, b) ==
    Value({ <<Mul(x[2], y[3]) - Mul(x[3], y[2]),
              Mul(x[3], y[1]) - Mul(x[1], y[3]),
              Mul(x[1], y[2]) - Mul(x[2], y[1])>> : x \in {a}, y \in {b} })
length_squared(a) == dot(a, a)
\* sqrt(x^2 + y^2 + z^2); the sum under the root is taken exactly
length(a) == Value({ ISqrt(x[1] * x[1] + x[2] * x[2] + x[3] * x[3]) : x \in {a} })
\* the zero vector normalizes to NaN in every component
normalize(a) ==
    Value({ IF n = 0 THEN NaN ELSE VDiv(a, n) : n \in {length(a)} })

(***************************************************************************)
(* Ray, Range<f64>                                                         *)
(***************************************************************************)
Ray(o, d) == [origin |-> o, direction |-> d]
Ray_at(r, t) == VAdd(r.origin, VScale(t, r.direction))

Range(s, e) == [start |-> s, end |-> e]
\* Range::contains(&x) for an x that may be NaN or infinite: start <= x < end
Contains(range, x) ==
    /\ IsFinite(x)
    /\ range.start <= x[1]
    /\ (range.end = INFINITY \/ x[1] < range.end[1])

(***************************************************************************)
(* HitRecord                                                               *)
(***************************************************************************)
calc_face_normal_unflipped(r, outward_normal) ==
    <<dot(r.direction, outward_normal) < 0, outward_normal>>

calc_face_normal(r, outward_normal) ==
    Value({ <<front_face, IF front_face THEN outward_normal ELSE VNeg(outward_normal)>> :
            front_face \in {dot(r.direction, outward_normal) < 0} })

with_face_normal(material, point, outward_normal, t, r) ==
    Value({ [material |-> material, point |-> point, normal |-> fn[2], t |-> t,
             front_face |-> fn[1]] :
            fn \in {calc_face_normal(r, outward_normal)} })

(***************************************************************************)
(* Sphere                                                                  *)
(***************************************************************************)
Sphere(c, r, m) == [center |-> c, radius |-> r, material |-> m]

half_b_of(s, r) == dot(VSub(r.origin, s.center), r.direction)
discriminant_of(s, r) ==
    Value({ Mul(half_b, half_b) - Mul(length_squared(r.direction), c) :
            half_b \in {half_b_of(s, r)},
            c \in {length_squared(VSub(r.origin, s.center)) - Mul(s.radius, s.radius)} })
\* (-half_b - sqrtd) / a and (-half_b + sqrtd) / a; a = 0 gives NaN or an
\* infinity
NearRoot(s, r) ==
    Value({ IF a = 0 THEN NaN
            ELSE Fin(Div(-half_b_of(s, r) - Sqrt(discriminant_of(s, r)), a)) :
            a \in {length_squared(r.direction)} })
FarRoot(s, r) ==
    Value({ IF a = 0 THEN NaN
            ELSE Fin(Div(-half_b_of(s, r) + Sqrt(discriminant_of(s, r)), a)) :
            a \in {length_squared(r.direction)} })

\* the record Sphere::hit builds for the root t
SphereRecord(s, r, t) ==
    Value({ with_face_normal(s.material, point,
                             VDiv(VSub(point, s.center), s.radius), t, r) :
            point \in {Ray_at(r, t)} })

Sphere_hit_far_first(s, r, range) ==
    IF discriminant_of(s, r) < 0 THEN None
    ELSE Value({ IF Contains(range, far) THEN Some(SphereRecord(s, r, far[1]))
                 ELSE IF Contains(range, near) THEN Some(SphereRecord(s, r, near[1]))
                      ELSE None :
                 near \in {NearRoot(s, r)}, far \in {FarRoot(s, r)} })

Sphere_hit(s, r, range) ==
    IF discriminant_of(s, r) < 0 THEN None
    ELSE Value({ IF Contains(range, root) THEN Some(SphereRecord(s, r, root[1]))
                 ELSE Value({ IF Contains(range, root2)
                              THEN Some(SphereRecord(s, r, root2[1]))
                              ELSE None : root2 \in {FarRoot(s, r)} }) :
                 root \in {NearRoot(s, r)} })

(***************************************************************************)
(* HittableList                                                            *)
(***************************************************************************)
\* the closure of the fold, with the bound of the whole query for each member
FoldStepWide(a, item, r, range) ==
    Value({ IF IsSome(temp_rec) THEN <<Fin(Unwrap(temp_rec).t), temp_rec>> ELSE a :
            temp_rec \in {Sphere_hit(item, r, range)} })

\* the closure of the fold: acc is (closest so far, best record so far)
FoldStep(a, item, r, range) ==
    Value({ IF IsSome(temp_rec) THEN <<Fin(Unwrap(temp_rec).t), temp_rec>> ELSE a :
            temp_rec \in {Sphere_hit(item, r, Range(range.start, a[1]))} })

RECURSIVE Fold(_, _, _, _)
Fold(a, objects, r, range) ==
    IF objects = <<>> THEN a
    ELSE Fold(FoldStep(a, Head(objects), r, range), Tail(objects), r, range)

HittableList_hit(objects, r, range) ==
    Fold(<<range.end, None>>, objects, r, range)[2]

(***************************************************************************)
(* Colours: DVec3 on the colour grid, or NaN in every channel              *)
(***************************************************************************)
LitC(n, d) == LitOn(ColorScale, n, d)
Color(r, g, b) == <<r, g, b>>
BLACK == Color(0, 0, 0)
WHITE == Color(ColorScale, ColorScale, ColorScale)
CMul(a, b) == Round(a * b, ColorScale)
\* DVec3 * DVec3, componentwise
CVMul(a, b) ==
    IF a = NaN \/ b = NaN THEN NaN
    ELSE <<CMul(a[1], b[1]), CMul(a[2], b[2]), CMul(a[3], b[3])>>
CVAdd(a, b) == IF a = NaN \/ b = NaN THEN NaN ELSE VAdd(a, b)
\* f64 * DVec3
CVScale(s, a) == IF a = NaN THEN NaN ELSE <<CMul(s, a[1]), CMul(s, a[2]), CMul(s, a[3])>>
\* a geometric f64 as a colour factor
ToColor(x) == Round(x * ColorScale, Scale)

(***************************************************************************)
(* Material                                                                *)
(***************************************************************************)
Lambertian(albedo) == [kind |-> "Lambertian", albedo |-> albedo]
Metal(albedo, fuzz) == [kind |-> "Metal", albedo |-> albedo, fuzz |-> fuzz]
Dielectric(index) == [kind |-> "Dielectric", index_of_refraction |-> index]
Scattered(attenuation, scattered) ==
    [attenuation |-> attenuation, scattered |-> scattered]

reflect(v, n) == Value({ VSub(x, VScale(2 * dot(x, y), y)) : x \in {v}, y \in {n} })

refract(uv, n, etai_over_etat) ==
    Value({ VAdd(r_out_perp,
                 \* r_out_parallel
                 VScale(-Sqrt(Abs(Scale - length_squared(r_out_perp))), n)) :
            r_out_perp \in
              { VScale(etai_over_etat, VAdd(uv, VScale(cos_theta, n))) :
                cos_theta \in {Min(dot(VNeg(uv), n), Scale)} } })

\* powf(5.)
Pow5(x) == Value({ Mul(Mul(Mul(Mul(v, v), v), v), v) : v \in {x} })

reflectance(cosine, ref_idx) ==
    Value({ r0sq + Mul(Scale - r0sq, Pow5(Scale - cosine)) :
            r0sq \in { Mul(r0, r0) : r0 \in {Div(Scale - ref_idx, Scale + ref_idx)} } })

\* DVec3::abs_diff_eq(ZERO, 1e-8)
NearZero(v) ==
    \A i \in 1..3 : Abs(v[i]) <= LitDown(1, 100000000)

refraction_ratio_swapped(m, hit_record) ==
    IF hit_record.front_face THEN m.index_of_refraction
    ELSE Div(Scale, m.index_of_refraction)

refraction_ratio(m, hit_record) ==
    IF hit_record.front_face THEN Div(Scale, m.index_of_refraction)
    ELSE m.index_of_refraction

cos_theta_of(r_in, hit_record) ==
    Value({ Min(c, Scale) : c \in {-dot(normalize(r_in.direction), hit_record.normal)} })
sin_theta_of(r_in, hit_record) ==
    Value({ Sqrt(Scale - Mul(c, c)) : c \in {cos_theta_of(r_in, hit_record)} })

\* rv is what random_unit_vector() returned, u what rng.gen::<f64>() returned
Material_scatter(m, r_in, hit_record, rv, u) ==
    CASE m.kind = "Lambertian" ->
            Value({ Some(Scattered(m.albedo,
                        Ray(hit_record.point,
                            \* scatter_direction
                            IF NearZero(sum0) THEN hit_record.normal ELSE sum0))) :
                    sum0 \in {VAdd(hit_record.normal, rv)} })
      [] m.kind = "Metal" ->
            Value({ IF dot(scattered.direction, hit_record.normal) > 0
                    THEN Some(Scattered(m.albedo, scattered))
                    ELSE None :
                    scattered \in
                      { Ray(hit_record.point, VAdd(reflected, VScale(m.fuzz, rv))) :
                        reflected \in {reflect(normalize(r_in.direction),
                                               hit_record.normal)} } })
      [] m.kind = "Dielectric" ->
            Value({ Some(Scattered(WHITE,
                        Ray(hit_record.point,
                            \* direction
                            IF cannot_refract \/ reflectance(cos_theta, ratio) > u
                            THEN reflect(unit_direction, hit_record.normal)
                            ELSE refract(unit_direction, hit_record.normal, ratio)))) :
                    ratio \in {refraction_ratio(m, hit_record)},
                    unit_direction \in {normalize(r_in.direction)},
                    cos_theta \in {cos_theta_of(r_in, hit_record)},
                    cannot_refract \in
                      {Mul(refraction_ratio(m, hit_record),
                           sin_theta_of(r_in, hit_record)) > Scale} })
      [] OTHER -> None

\* the background of Ray::color: the gradient for the ray's direction
Sky(r) ==
    Value({ IF unit_direction = NaN THEN NaN
            ELSE Value({ CVAdd(CVScale(ColorScale - a, WHITE),
                               CVScale(a, Color(LitC(5, 10), LitC(7, 10), ColorScale))) :
                         a \in {ToColor(Mul(Lit(1, 2), unit_direction[2] + Scale))} }) :
            unit_direction \in {normalize(r.direction)} })

(***************************************************************************)
(* Camera                                                                  *)
(***************************************************************************)
\* an aspect ratio num / den, den > 0
Ratio(num, den) == [num |-> num, den |-> den]

\* (image_width as f64 / aspect_ratio) as u32 for an aspect ratio that is not
\* zero: the cast truncates, and takes a negative quotient to 0
image_height_of(image_width, aspect_ratio) ==
    IF aspect_ratio.num < 0 THEN 0
    ELSE (image_width * aspect_ratio.den) \div aspect_ratio.num

\* (theta / 2.).tan() for vfov = 20 degrees
TanHalfVfov == Lit(17633, 100000)

unwrap_or(o, default) == IF IsSome(o) THEN Unwrap(o) ELSE default

\* The fields that divide by image_height or by image_width are not finite
\* when the image is empty (image_width = 0 implies image_height = 0).
Camera_new(image_width, aspect_ratio, look_from, look_at, vup_arg) ==
    LET lookfrom == unwrap_or(look_from, NEG_Z)
        lookat == unwrap_or(look_at, ZERO)
        vup == unwrap_or(vup_arg, Y)
        image_height == image_height_of(image_width, aspect_ratio)
        focal_length == length(VSub(lookfrom, lookat))
        viewport_height == Mul(2 * TanHalfVfov, focal_length)
        viewport_width ==
            Mul(viewport_height, Round(image_width * Scale, image_height))
        center == lookfrom
        w == normalize(VSub(lookfrom, lookat))
        u == normalize(cross(vup, w))
        v == cross(w, u)
        viewport_u == VScale(viewport_width, u)
        viewport_v == VScale(viewport_height, VNeg(v))
        pixel_delta_u == <<Round(viewport_u[1], image_width),
                           Round(viewport_u[2], image_width),
                           Round(viewport_u[3], image_width)>>
        pixel_delta_v == <<Round(viewport_v[1], image_height),
                           Round(viewport_v[2], image_height),
                           Round(viewport_v[3], image_height)>>
        viewport_upper_left ==
            VSub(VSub(VSub(center, VScale(focal_length, w)),
                      VDiv(viewport_u, 2 * Scale)),
                 VDiv(viewport_v, 2 * Scale))
        pixel00_loc ==
            VAdd(viewport_upper_left,
                 VScale(Lit(1, 2), VAdd(pixel_delta_u, pixel_delta_v)))
    IN  [image_width |-> image_width,
         image_height |-> image_height,
         max_value |-> 255,
         aspect_ratio |-> aspect_ratio,
         center |-> center,
         pixel_delta_u |-> IF image_height = 0 THEN NonFinite ELSE pixel_delta_u,
         pixel_delta_v |-> IF image_height = 0 THEN NonFinite ELSE pixel_delta_v,
         pixel00_loc |-> IF image_height = 0 THEN NonFinite ELSE pixel00_loc,
         samples_per_pixel |-> SamplesPerPixel,
         max_depth |-> MaxDepth,
         vfov |-> 20,
         lookfrom |-> lookfrom,
         lookat |-> lookat,
         vup |-> vup,
         u |-> u,
         v |-> v,
         w |-> w]

\* gx and gy are what the two rng.gen::<f64>() calls returned
pixel_sample_square(c, gx, gy) ==
    VAdd(VScale(-Lit(1, 2) + gx, c.pixel_delta_u),
         VScale(-Lit(1, 2) + gy, c.pixel_delta_v))

get_ray(c, i, j, gx, gy) ==
    Value({ Ray(c.center, VSub(pixel_sample, c.center)) :
            pixel_sample \in
              { VAdd(VAdd(VAdd(c.pixel00_loc, VTimes(i, c.pixel_delta_u)),
                          VTimes(j, c.pixel_delta_v)),
                     pixel_sample_square(c, gx, gy)) } })

\* f64::sqrt on the colour grid
linear_to_gamma(scalar) == ISqrt(scalar * ColorScale)

\* the text "{}" gives a non-negative f64 of the colour grid: its integer
\* part and its fraction, in units of 1 / ColorScale
FormatF64(n) == [int |-> n \div ColorScale, frac |-> n % ColorScale]

\* one channel of a pixel: gamma, clamp to [0, 0.999], times 256
Channel(x) == Min(Max(linear_to_gamma(x), 0), LitC(999, 1000)) * 256

\* the line of a pixel whose samples sum to total; f64::max and f64::min take
\* a NaN channel to the bound it is clamped by, 0
PixelText(total, samples_per_pixel) ==
    Value({ IF multisampled_pixel_color = NaN
            THEN <<FormatF64(0), FormatF64(0), FormatF64(0)>>
            ELSE <<FormatF64(Channel(multisampled_pixel_color[1])),
                   FormatF64(Channel(multisampled_pixel_color[2])),
                   FormatF64(Channel(multisampled_pixel_color[3]))>> :
            multisampled_pixel_color \in
              { CVScale(scale_factor, total) :
                scale_factor \in {Round(ColorScale, samples_per_pixel)} } })

\* the pair after (y, x) in (0..image_height).cartesian_product(0..image_width)
NextPairColumnMajor(c, y, x) ==
    IF y + 1 < c.image_height THEN <<y + 1, x>> ELSE <<0, x + 1>>

NextPair(c, y, x) ==
    IF x + 1 < c.image_width THEN <<y, x + 1>> ELSE <<y + 1, 0>>

\* whether (y, x) is a pair of the product
InProduct(c, y, x) == y < c.image_height /\ x < c.image_width

(***************************************************************************)
(* Inputs                                                                  *)
(***************************************************************************)
GREY == Color(LitC(1, 2), LitC(1, 2), LitC(1, 2))
GOLD == Color(LitC(8, 10), LitC(6, 10), LitC(2, 10))

\* the members a scene is built from: a diffuse sphere, a hollow glass shell
\* on the same surface (negative radius), a glass ball, a fuzzy mirror
\* further away, and a sphere of radius zero
SceneSpheres ==
    { Sphere(V(0, 0, -2), Scale, Lambertian(GREY)),
      Sphere(V(0, 0, -2), -Scale, Dielectric(Lit(3, 2))),
      Sphere(V(0, 0, 2), Scale, Dielectric(Lit(3, 2))),
      Sphere(V(0, 1, -4), 2 * Scale, Metal(GOLD, Lit(1, 2))),
      Sphere(V(3, 3, 0), 0, Lambertian(GREY)) }

\* the rays of the direct calls; one direction is not normalized, one is zero
Origins == { ZERO, <<0, Lit(3, 4), 0>>, <<0, Lit(3, 4), 2 * Scale>> }
Directions == { V(0, 0, -1), V(0, 0, -2), V(0, 0, 1), V(0, 1, -2), ZERO }
Rays == { Ray(o, d) : o \in Origins, d \in Directions }

\* the range Ray::color queries the scene with: 0.001..f64::INFINITY
ColorRange == Range(LitUp(1, 1000), INFINITY)
Ranges ==
    { ColorRange,
      Range(LitUp(1, 1000), Fin(Scale)),
      Range(Scale, Fin(3 * Scale)),
      Range(2 * Scale, INFINITY) }

\* the members the rendered scene is built from: a mirror that the left
\* column of the image sees, and a sphere of radius zero
RenderSpheres ==
    { Sphere(<<Lit(1, 4), 0, Scale>>, Lit(1, 4), Metal(GOLD, 0)),
      Sphere(V(3, 3, 0), 0, Lambertian(GREY)) }

\* the image widths and aspect ratios a camera is built for
ImageWidths == 0..MaxWidth
AspectRatios == { Ratio(1, 1), Ratio(2, 1), Ratio(3, 1), Ratio(-1, 1) }

\* what random_unit_vector() returns
UnitVectors ==
    { V(1, 0, 0), V(-1, 0, 0), V(0, 1, 0), V(0, -1, 0), V(0, 0, 1), V(0, 0, -1) }
\* what rng.gen::<f64>() returns: values of [0, 1)
UniformDraws == { 0, Scale \div 2, Scale - 1 }
\* what the two rng.gen::<f64>() calls of pixel_sample_square return
SquareDraws == { <<0, 0>>, <<Scale - 1, Scale - 1>> }

(***************************************************************************)
(* The state after construction                                            *)
(***************************************************************************)
Init ==
    /\ world = <<>>
    /\ cam = None
    /\ pc = "setup"
    /\ py = 0
    /\ px = 0
    /\ sample = 0
    /\ sum = BLACK
    /\ samples = <<>>
    /\ pixels = <<>>
    /\ output = None
    /\ cpc = "idle"
    /\ ray = None
    /\ depth = 0
    /\ frames = <<>>
    /\ ret = None
    /\ hpc = "idle"
    /\ interval = None
    /\ idx = 0
    /\ acc = <<INFINITY, None>>
    /\ call = None
    /\ scat = None
    /\ depth0 = 0
    /\ ray0 = None
    /\ nQueries = 0
    /\ nScatters = 0

renderVars == <<cam, py, px, sample, sum, samples, pixels, output>>
colorVars ==
    <<cpc, depth, frames, ret, scat, depth0, ray0, nQueries, nScatters>>
hitVars == <<hpc, interval, idx, acc, call>>

(***************************************************************************)
(* HittableList::add, and HittableList::hit one member at a time           *)
(***************************************************************************)
HittableList_add(object) ==
    /\ pc = "setup"
    /\ Len(world) < MaxObjects
    /\ world' = Append(world, object)
    /\ UNCHANGED <<pc, ray, renderVars, colorVars, hitVars>>

AddScene == \E object \in SceneSpheres : HittableList_add(object)

\* the state in which HittableList::hit(r, range) starts its fold
BeginHit(r, range) ==
    /\ hpc' = "fold"
    /\ ray' = r
    /\ interval' = range
    /\ idx' = 1
    /\ acc' = <<range.end, None>>
    /\ call' = None

\* a direct call of the scene's hit
CallHit ==
    /\ pc = "setup"
    /\ \E r \in Rays, range \in Ranges : BeginHit(r, range)
    /\ pc' = "query"
    /\ UNCHANGED <<world, renderVars, colorVars>>

\* one iteration of the fold: the member's hit, then the closure's result
HitStep ==
    /\ hpc = "fold"
    /\ idx <= Len(world)
    /\ acc' = FoldStep(acc, world[idx], ray, interval)
    /\ call' = Some([sphere |-> world[idx], r |-> ray,
                     range |-> Range(interval.start, acc[1]),
                     result |-> Sphere_hit(world[idx], ray,
                                           Range(interval.start, acc[1]))])
    /\ idx' = idx + 1
    /\ UNCHANGED <<world, pc, ray, hpc, interval, renderVars, colorVars>>

\* the fold is over: HittableList::hit returns hit_record, acc[2]
HitReturn ==
    /\ hpc = "fold"
    /\ idx > Len(world)
    /\ hpc' = "done"
    /\ UNCHANGED <<world, pc, ray, interval, idx, acc, call, renderVars, colorVars>>

(***************************************************************************)
(* Ray::color                                                              *)
(***************************************************************************)
DepthExhaustedStrict(d) == d < 0
\* the test of the first line of Ray::color
DepthExhausted(d) == d <= 0

RecursiveDepthSame(d) == d
\* the depth of the recursive call
RecursiveDepth(d) == d - 1

\* the state in which r.color(d, world) starts
BeginColor(r, d) ==
    /\ cpc' = "enter"
    /\ ray' = r
    /\ depth' = d

\* a direct call of Ray::color
CallColor ==
    /\ pc = "setup"
    /\ \E r \in Rays, d \in -1..MaxDepth :
          /\ BeginColor(r, d)
          /\ depth0' = d
          /\ ray0' = r
    /\ pc' = "trace"
    /\ frames' = <<>>
    /\ nQueries' = 0
    /\ nScatters' = 0
    /\ UNCHANGED <<world, ret, scat, renderVars, hitVars>>

\* depth <= 0: return black
ColorExhausted ==
    /\ cpc = "enter"
    /\ DepthExhausted(depth)
    /\ ret' = BLACK
    /\ cpc' = "return"
    /\ UNCHANGED <<world, pc, ray, depth, frames, scat, depth0, ray0,
                   nQueries, nScatters, renderVars, hitVars>>

\* depth > 0: world.hit(self, 0.001..INFINITY)
ColorQuery ==
    /\ cpc = "enter"
    /\ ~DepthExhausted(depth)
    /\ BeginHit(ray, ColorRange)
    /\ cpc' = "query"
    /\ nQueries' = nQueries + 1
    /\ UNCHANGED <<world, pc, depth, frames, ret, scat, depth0, ray0, nScatters,
                   renderVars>>

\* a hit: the material scatters, and the call recurses or returns black
ColorScatter ==
    /\ cpc = "query"
    /\ hpc = "done"
    /\ IsSome(acc[2])
    /\ \E rv \in UnitVectors, u \in UniformDraws :
          LET rec == Unwrap(acc[2])
              res == Material_scatter(rec.material, ray, rec, rv, u)
          IN  /\ scat' = Some([material |-> rec.material, r_in |-> ray,
                               hit_record |-> rec,
                               u |-> IF rec.material.kind = "Dielectric"
                                     THEN u ELSE 0,
                               result |-> res])
              /\ IF IsSome(res)
                 THEN /\ frames' = Append(frames,
                            [ray |-> ray, depth |-> depth,
                             attenuation |-> Unwrap(res).attenuation])
                      /\ BeginColor(Unwrap(res).scattered, RecursiveDepth(depth))
                      /\ ret' = ret
                 ELSE /\ ret' = BLACK
                      /\ cpc' = "return"
                      /\ UNCHANGED <<ray, depth, frames>>
    /\ hpc' = "idle"
    /\ nScatters' = nScatters + 1
    /\ UNCHANGED <<world, pc, interval, idx, acc, call, depth0, ray0, nQueries,
                   renderVars>>

\* a miss: the background gradient
ColorMiss ==
    /\ cpc = "query"
    /\ hpc = "done"
    /\ acc[2] = None
    /\ ret' = Sky(ray)
    /\ cpc' = "return"
    /\ hpc' = "idle"
    /\ UNCHANGED <<world, pc, ray, depth, frames, scat, depth0, ray0,
                   nQueries, nScatters, interval, idx, acc, call, renderVars>>

\* the recursive call returned: attenuation * its value is returned in turn
ColorReturn ==
    /\ cpc = "return"
    /\ frames # <<>>
    /\ LET f == frames[Len(frames)]
       IN  /\ ret' = CVMul(f.attenuation, ret)
           /\ ray' = f.ray
           /\ depth' = f.depth
    /\ frames' = SubSeq(frames, 1, Len(frames) - 1)
    /\ UNCHANGED <<world, pc, cpc, scat, depth0, ray0, nQueries, nScatters,
                   renderVars, hitVars>>

(***************************************************************************)
(* main: the scene, Camera::new, Camera::render_to_disk                    *)
(***************************************************************************)
AddRender == \E object \in RenderSpheres : HittableList_add(object)

\* Camera::new(image_width, aspect_ratio, None, None, None)
NewCamera ==
    /\ pc = "setup"
    /\ \E image_width \in ImageWidths, aspect_ratio \in AspectRatios :
          cam' = Some(Camera_new(image_width, aspect_ratio, None, None, None))
    /\ pc' = "pixel"
    /\ py' = 0
    /\ px' = 0
    /\ UNCHANGED <<world, ray, sample, sum, samples, pixels, output, colorVars,
                   hitVars>>

\* the closure of the map is entered for the next pair (y, x)
RenderPixel ==
    /\ pc = "pixel"
    /\ InProduct(Unwrap(cam), py, px)
    /\ pc' = "sampling"
    /\ sample' = 0
    /\ sum' = BLACK
    /\ samples' = <<>>
    /\ UNCHANGED <<world, cam, py, px, ray, pixels, output, colorVars, hitVars>>

\* self.get_ray(x, y).color(self.max_depth, &world) is called
RenderSample ==
    /\ pc = "sampling"
    /\ cpc = "idle"
    /\ sample < Unwrap(cam).samples_per_pixel
    /\ \E g \in SquareDraws :
          /\ BeginColor(get_ray(Unwrap(cam), px, py, g[1], g[2]),
                        Unwrap(cam).max_depth)
          /\ ray0' = get_ray(Unwrap(cam), px, py, g[1], g[2])
    /\ depth0' = Unwrap(cam).max_depth
    /\ frames' = <<>>
    /\ nQueries' = 0
    /\ nScatters' = 0
    /\ UNCHANGED <<world, pc, ret, scat, renderVars, hitVars>>

\* the call returned: its colour is added to the sum
RenderAccumulate ==
    /\ pc = "sampling"
    /\ cpc = "return"
    /\ frames = <<>>
    /\ sum' = CVAdd(sum, ret)
    /\ samples' = Append(samples,
                         [ray |-> ray0, depth |-> depth0, color |-> ret])
    /\ sample' = sample + 1
    /\ cpc' = "idle"
    /\ UNCHANGED <<world, pc, cam, py, px, pixels, output, ray, depth, frames,
                   ret, scat, depth0, ray0, nQueries, nScatters,
                   hitVars>>

\* the pixel's line is formatted, and the product moves to its next pair
RenderEmit ==
    /\ pc = "sampling"
    /\ cpc = "idle"
    /\ sample = Unwrap(cam).samples_per_pixel
    /\ pixels' = Append(pixels,
                        [y |-> py, x |-> px,
                         text |-> PixelText(sum, Unwrap(cam).samples_per_pixel),
                         of |-> samples])
    /\ py' = NextPair(Unwrap(cam), py, px)[1]
    /\ px' = NextPair(Unwrap(cam), py, px)[2]
    /\ pc' = "pixel"
    /\ UNCHANGED <<world, cam, sample, sum, samples, output, ray, colorVars,
                   hitVars>>

\* the product is exhausted: fs::write of the header and the joined lines
RenderWrite ==
    /\ pc = "pixel"
    /\ ~InProduct(Unwrap(cam), py, px)
    /\ output' = Some([magic |-> "P3",
                       width |-> Unwrap(cam).image_width,
                       height |-> Unwrap(cam).image_height,
                       max_value |-> Unwrap(cam).max_value,
                       lines |-> [i \in 1..Len(pixels) |-> pixels[i].text]])
    /\ pc' = "written"
    /\ UNCHANGED <<world, cam, py, px, sample, sum, samples, pixels, ray,
                   colorVars, hitVars>>

Next ==
    \/ AddScene
    \/ CallHit
    \/ CallColor
    \/ HitStep
    \/ HitReturn
    \/ ColorExhausted
    \/ ColorQuery
    \/ ColorScatter
    \/ ColorMiss
    \/ ColorReturn

Spec == Init /\ [][Next]_vars

\* the program is sequential and keeps running while it has a step to take
FairSpec == Spec /\ WF_vars(Next)

NextRender ==
    \/ AddRender
    \/ NewCamera
    \/ RenderPixel
    \/ RenderSample
    \/ RenderAccumulate
    \/ RenderEmit
    \/ RenderWrite
    \/ HitStep
    \/ HitReturn
    \/ ColorExhausted
    \/ ColorQuery
    \/ ColorScatter
    \/ ColorMiss
    \/ ColorReturn

SpecRender == Init /\ [][NextRender]_vars

(***************************************************************************)
(* Helpers of the properties                                               *)
(***************************************************************************)
\* b1 <= b2 for two range ends
BoundLe(b1, b2) == b2 = INFINITY \/ (b1 # INFINITY /\ b1[1] <= b2[1])

SetMin(S) == CHOOSE m \in S : \A n \in S : m <= n

\* the t of every member's own hit within the whole range of the query
MemberHits(objects, r, range) ==
    { Unwrap(Sphere_hit(objects[i], r, range)).t :
        i \in { j \in 1..Len(objects) : IsSome(Sphere_hit(objects[j], r, range)) } }

\* the members whose own hit within the range is at t
MembersAt(objects, r, range, t) ==
    { j \in 1..Len(objects) :
        /\ IsSome(Sphere_hit(objects[j], r, range))
        /\ Unwrap(Sphere_hit(objects[j], r, range)).t = t }

\* every ordering of the members of a list
Orderings(objects) ==
    { [i \in 1..Len(objects) |-> objects[p[i]]] :
        p \in { q \in [1..Len(objects) -> 1..Len(objects)] :
                  \A i, j \in 1..Len(objects) : q[i] = q[j] => i = j } }

\* the t of a hit result, as a set: empty for none
HitT(res) == IF IsSome(res) THEN {Unwrap(res).t} ELSE {}

\* the roots of the quadratic that lie inside the range
RootsInside(s, r, range) ==
    { root[1] : root \in { x \in {NearRoot(s, r), FarRoot(s, r)} : Contains(range, x) } }

(***************************************************************************)
(* C1: HittableList::hit returns the closest hit.  When the fold is over,  *)
(* the result is none if no member has a hit of its own within             *)
(* [start, end), and otherwise a record whose t is the least t of the      *)
(* members' hits within [start, end).  During the fold the bound that the  *)
(* next member is given is interval.end while there is no best record and  *)
(* the t of the best record otherwise, and it is never above the bound     *)
(* the previous member was given.                                          *)
(***************************************************************************)
C1_ClosestHit ==
    /\ hpc = "done" =>
          LET hits == MemberHits(world, ray, interval)
          IN  IF hits = {} THEN acc[2] = None
              ELSE IsSome(acc[2]) /\ Unwrap(acc[2]).t = SetMin(hits)
    /\ hpc \in {"fold", "done"} =>
          /\ acc[1] = (IF IsSome(acc[2]) THEN Fin(Unwrap(acc[2]).t) ELSE interval.end)
          /\ BoundLe(acc[1], interval.end)
          /\ IsSome(call) => BoundLe(acc[1], Unwrap(call).range.end)

\* a fold over two members that both hit within the range, the closer one last
C1_Witness ==
    /\ hpc = "done"
    /\ Len(world) = 2
    /\ Cardinality(MemberHits(world, ray, interval)) = 2
    /\ Unwrap(Sphere_hit(world[1], ray, interval)).t
         > Unwrap(Sphere_hit(world[2], ray, interval)).t
    /\ IsSome(acc[2])

(***************************************************************************)
(* C2: every record Sphere::hit returns for a sphere of nonzero radius     *)
(* has a normal that faces against the ray, dot(normal, direction) <= 0;   *)
(* front_face is true exactly when dot(direction, outward_normal) < 0; and *)
(* when front_face is false the normal is the negated outward normal.      *)
(***************************************************************************)
C2_NormalAgainstRay ==
    (IsSome(call) /\ IsSome(Unwrap(call).result) /\ Unwrap(call).sphere.radius # 0) =>
        LET c == Unwrap(call)
            rec == Unwrap(c.result)
            outward_normal == VDiv(VSub(rec.point, c.sphere.center), c.sphere.radius)
        IN  /\ dot(rec.normal, c.r.direction) <= 0
            /\ rec.front_face <=> (dot(c.r.direction, outward_normal) < 0)
            /\ ~rec.front_face => rec.normal = VNeg(outward_normal)
            /\ rec.front_face => rec.normal = outward_normal

\* a hit from the inner side of a sphere of negative radius: the normal was flipped
C2_Witness ==
    /\ IsSome(call)
    /\ IsSome(Unwrap(call).result)
    /\ Unwrap(call).sphere.radius < 0
    /\ ~Unwrap(Unwrap(call).result).front_face
    /\ dot(Unwrap(Unwrap(call).result).normal, Unwrap(call).r.direction) < 0

(***************************************************************************)
(* C3: Sphere::hit returns none when the discriminant is negative or when  *)
(* neither root lies in [start, end); otherwise it returns the near root   *)
(* if that lies in the range and else the far root, so that the returned   *)
(* t is the smallest root inside the range, and is inside the range.       *)
(***************************************************************************)
C3_NearRootFirst ==
    IsSome(call) =>
        LET c == Unwrap(call)
        IN  IF discriminant_of(c.sphere, c.r) < 0 THEN c.result = None
            ELSE LET inside == RootsInside(c.sphere, c.r, c.range)
                 IN  /\ (inside = {}) <=> (c.result = None)
                     /\ IsSome(c.result) =>
                           /\ Unwrap(c.result).t = SetMin(inside)
                           /\ Contains(c.range, Fin(Unwrap(c.result).t))
                           /\ Unwrap(c.result).t =
                                 (IF Contains(c.range, NearRoot(c.sphere, c.r))
                                  THEN NearRoot(c.sphere, c.r)[1]
                                  ELSE FarRoot(c.sphere, c.r)[1])

\* the near root lies before the range and the far root inside it
C3_Witness ==
    /\ IsSome(call)
    /\ IsSome(Unwrap(call).result)
    /\ ~Contains(Unwrap(call).range, NearRoot(Unwrap(call).sphere, Unwrap(call).r))
    /\ Unwrap(Unwrap(call).result).t = FarRoot(Unwrap(call).sphere, Unwrap(call).r)[1]
    /\ NearRoot(Unwrap(call).sphere, Unwrap(call).r)[1] > 0

(***************************************************************************)
(* C8 as stated: HittableList::hit returns the same result, the same       *)
(* record or none, for every ordering of the members.                      *)
(***************************************************************************)
C8_SameRecordInAnyOrder ==
    hpc = "done" =>
        \A other \in Orderings(world) : HittableList_hit(other, ray, interval) = acc[2]

(***************************************************************************)
(* C8 as amended: for every ordering of the members the result is none in  *)
(* both or has the same t; and it is the same record unless two members    *)
(* hit the ray at that closest t.                                          *)
(***************************************************************************)
C8_SameTInAnyOrder ==
    hpc = "done" =>
        \A other \in Orderings(world) :
            LET res == HittableList_hit(other, ray, interval)
            IN  /\ HitT(res) = HitT(acc[2])
                /\ (IsSome(acc[2]) /\ Cardinality(MembersAt(world, ray, interval,
                                                             Unwrap(acc[2]).t)) = 1)
                      => res = acc[2]

\* a list of two members that both hit, at different t, the farther one first
C8_Witness ==
    /\ hpc = "done"
    /\ Len(world) = 2
    /\ world[1] # world[2]
    /\ IsSome(acc[2])
    /\ Cardinality(MemberHits(world, ray, interval)) = 2
    /\ Unwrap(acc[2]) = Unwrap(Sphere_hit(world[2], ray, interval))

(***************************************************************************)
(* C4: a Ray::color call with depth <= 0 returns black as its next step,   *)
(* whatever the ray and the scene: no scene query and no scatter call is   *)
(* made, since the depth test comes first.                                 *)
(***************************************************************************)
C4_DepthZeroBlack ==
    [][(cpc = "enter" /\ depth <= 0) =>
          /\ cpc' = "return"
          /\ ret' = BLACK
          /\ nQueries' = nQueries
          /\ nScatters' = nScatters
          /\ UNCHANGED <<hitVars, scat, frames>>]_vars

\* a direct call with depth 0 returned black for a ray that hits the scene
C4_Witness ==
    /\ cpc = "return"
    /\ depth0 = 0
    /\ frames = <<>>
    /\ ret = BLACK
    /\ nQueries = 0
    /\ IsSome(HittableList_hit(world, ray, ColorRange))

(***************************************************************************)
(* C5: Ray::color terminates.  Every recursive call has the depth of its   *)
(* caller less one, and is made only after a hit whose material returned   *)
(* a scattered ray; a path makes at most max(depth, 0) scene queries and   *)
(* at most max(depth, 0) scatter calls; a path that scattered max(depth,   *)
(* 0) times ends in black; and every call that was begun returns.          *)
(***************************************************************************)
C5_Bounded ==
    cpc # "idle" =>
        /\ nQueries <= Max(depth0, 0)
        /\ nScatters <= Max(depth0, 0)
        /\ Len(frames) <= Max(depth0, 0)
        /\ depth = depth0 - Len(frames)
        /\ \A i \in 1..Len(frames) : frames[i].depth = depth0 - (i - 1)
        /\ (cpc = "return" /\ frames = <<>> /\ nScatters = Max(depth0, 0))
              => ret = BLACK

C5_RecursionAfterScatter ==
    Len(frames') > Len(frames) =>
        /\ cpc = "query"
        /\ hpc = "done"
        /\ IsSome(acc[2])
        /\ IsSome(Unwrap(scat').result)
        /\ ray' = Unwrap(Unwrap(scat').result).scattered
        /\ depth' = depth - 1

C5_Terminates ==
    /\ []C5_Bounded
    /\ [][C5_RecursionAfterScatter]_vars
    /\ (cpc = "enter") ~> (cpc = "return" /\ frames = <<>>)

\* a path that hit and scattered at every bounce has returned
C5_Witness ==
    /\ cpc = "return"
    /\ frames = <<>>
    /\ depth0 = MaxDepth
    /\ nScatters = MaxDepth
    /\ nQueries = MaxDepth
    /\ IsSome(Unwrap(scat).result)
    /\ ret = BLACK

(***************************************************************************)
(* C10: a Dielectric always scatters, with attenuation (1, 1, 1), from the *)
(* hit point.  With ratio = 1/index on a front face and index otherwise:   *)
(* when ratio * sin_theta > 1 the scattered direction is the reflection    *)
(* of the unit incoming direction, for every random draw; and the          *)
(* direction is the refracted one only when ratio * sin_theta <= 1 and     *)
(* the draw is not below the reflectance.                                  *)
(***************************************************************************)
C10_Dielectric ==
    (IsSome(scat) /\ Unwrap(scat).material.kind = "Dielectric") =>
        LET sc == Unwrap(scat)
            rec == sc.hit_record
            index == sc.material.index_of_refraction
            ratio == IF rec.front_face THEN Div(Scale, index) ELSE index
            unit == normalize(sc.r_in.direction)
            cos_theta == Min(-dot(unit, rec.normal), Scale)
            sin_theta == Sqrt(Scale - Mul(cos_theta, cos_theta))
            reflected == reflect(unit, rec.normal)
            refracted == refract(unit, rec.normal, ratio)
        IN  /\ IsSome(sc.result)
            /\ Unwrap(sc.result).attenuation = WHITE
            /\ Unwrap(sc.result).scattered.origin = rec.point
            /\ Unwrap(sc.result).scattered.direction \in {reflected, refracted}
            /\ Mul(ratio, sin_theta) > Scale
                  => Unwrap(sc.result).scattered.direction = reflected
            /\ Unwrap(sc.result).scattered.direction # reflected
                  => /\ Mul(ratio, sin_theta) <= Scale
                     /\ ~(sc.u < reflectance(cos_theta, ratio))

\* total internal reflection on a back face, under the largest draw
C10_Witness ==
    /\ IsSome(scat)
    /\ Unwrap(scat).material.kind = "Dielectric"
    /\ ~Unwrap(scat).hit_record.front_face
    /\ Unwrap(scat).u = Scale - 1
    /\ Mul(Unwrap(scat).material.index_of_refraction,
           sin_theta_of(Unwrap(scat).r_in, Unwrap(scat).hit_record)) > Scale
    /\ Unwrap(Unwrap(scat).result).scattered.direction =
          reflect(normalize(Unwrap(scat).r_in.direction), Unwrap(scat).hit_record.normal)

\* a refraction: the direction is not the reflected one
C10_RefractionReached ==
    /\ IsSome(scat)
    /\ Unwrap(scat).material.kind = "Dielectric"
    /\ Unwrap(Unwrap(scat).result).scattered.direction #
          reflect(normalize(Unwrap(scat).r_in.direction), Unwrap(scat).hit_record.normal)

(***************************************************************************)
(* Helpers of the properties of the render                                 *)
(***************************************************************************)
\* the value a channel's text reads as, in units of 1 / ColorScale
ChannelValue(ch) == ch.int * ColorScale + ch.frac

\* the rays get_ray(x, y) can return
PixelRays(c, x, y) == { get_ray(c, x, y, g[1], g[2]) : g \in SquareDraws }

\* the colours r.color(d, objects) can return, over the draws of the scatters
RECURSIVE ColorsOf(_, _, _)
ColorsOf(objects, r, d) ==
    IF d <= 0 THEN {BLACK}
    ELSE Value({
           IF h = None THEN {Sky(r)}
           ELSE UNION {
                  IF res = None THEN {BLACK}
                  ELSE { CVMul(Unwrap(res).attenuation, c) :
                         c \in ColorsOf(objects, Unwrap(res).scattered, d - 1) } :
                  res \in { Material_scatter(Unwrap(h).material, r, Unwrap(h),
                                             g[1], g[2]) :
                            g \in UnitVectors \X UniformDraws } } :
           h \in { HittableList_hit(objects, r, ColorRange) } })

\* the sum of the colours of a sequence of samples
RECURSIVE SumOf(_)
SumOf(ss) ==
    IF ss = <<>> THEN BLACK
    ELSE CVAdd(SumOf(SubSeq(ss, 1, Len(ss) - 1)), ss[Len(ss)].color)

(***************************************************************************)
(* C6: every channel value of every pixel line of the written image lies   *)
(* in [0, 255], 255 being the maximum value the header declares.           *)
(***************************************************************************)
C6_ChannelsWithinMaxValue ==
    IsSome(output) =>
        \A i \in 1..Len(Unwrap(output).lines) : \A k \in 1..3 :
            /\ 0 <= ChannelValue(Unwrap(output).lines[i][k])
            /\ ChannelValue(Unwrap(output).lines[i][k])
                  <= Unwrap(output).max_value * ColorScale

(***************************************************************************)
(* C7: invalid configuration does not get past construction.  No camera    *)
(* exists whose image_width is 0, whose aspect_ratio is not positive or    *)
(* whose image_height is 0, and no member of the scene has radius 0.       *)
(***************************************************************************)
C7_InvalidConfigurationRejected ==
    /\ IsSome(cam) =>
          /\ Unwrap(cam).image_width > 0
          /\ Unwrap(cam).aspect_ratio.num > 0
          /\ Unwrap(cam).image_height > 0
    /\ \A i \in 1..Len(world) : world[i].radius # 0

(***************************************************************************)
(* C9: the render emits the pixels in row-major order, rows outer: the     *)
(* i-th pixel emitted is the one of row (i - 1) div image_width and column *)
(* (i - 1) mod image_width, and the written image has exactly              *)
(* image_width * image_height lines, in that order.  Each pixel is the     *)
(* average of exactly samples_per_pixel calls of Ray::color, each started  *)
(* at depth max_depth with a ray get_ray gives for the pixel's own (x, y); *)
(* the pixel's line is computed from the sum of its own samples alone; and *)
(* each sample of the written image is a colour that call can return for   *)
(* the scene.                                                              *)
(***************************************************************************)
C9_RowMajorAverages ==
    IsSome(cam) =>
        LET c == Unwrap(cam)
        IN  /\ Len(pixels) <= c.image_width * c.image_height
            /\ \A i \in 1..Len(pixels) :
                  /\ pixels[i].y = (i - 1) \div c.image_width
                  /\ pixels[i].x = (i - 1) % c.image_width
                  /\ Len(pixels[i].of) = c.samples_per_pixel
                  /\ \A k \in 1..Len(pixels[i].of) :
                        /\ pixels[i].of[k].depth = c.max_depth
                        /\ pixels[i].of[k].ray
                              \in PixelRays(c, pixels[i].x, pixels[i].y)
                  /\ pixels[i].text
                        = PixelText(SumOf(pixels[i].of), c.samples_per_pixel)
            /\ IsSome(output) =>
                  /\ Len(pixels) = c.image_width * c.image_height
                  /\ Unwrap(output).width = c.image_width
                  /\ Unwrap(output).height = c.image_height
                  /\ Unwrap(output).lines
                        = [i \in 1..Len(pixels) |-> pixels[i].text]
                  /\ \A i \in 1..Len(pixels) :
                        \A k \in 1..Len(pixels[i].of) :
                            pixels[i].of[k].color
                              \in ColorsOf(world, pixels[i].of[k].ray,
                                           c.max_depth)

\* an image of two rows and two columns is written, one of whose pixels saw
\* the mirror and another only the sky
C9_Witness ==
    /\ IsSome(output)
    /\ Unwrap(cam).image_width = 2
    /\ Unwrap(cam).image_height = 2
    /\ Len(Unwrap(output).lines) = 4
    /\ \E i, j \in 1..4 :
          /\ \E k \in 1..Len(pixels[i].of) :
                HittableList_hit(world, pixels[i].of[k].ray, ColorRange) # None
          /\ \A k \in 1..Len(pixels[j].of) :
                HittableList_hit(world, pixels[j].of[k].ray, ColorRange) = None

====
